---- MODULE Spec2Model ----
(***************************************************************************)
(* Model of the Finance KG MCP server (finance_MCP.py): the tools it       *)
(* registers, the name index kg.name_dict they read, and the calls they    *)
(* make on the FinanceKG object kg.                                        *)
(*                                                                         *)
(* A Python str is a sequence of characters.  The characters are           *)
(*   "s" "S"  an ordinary cased pair,                                      *)
(*   "sz"     U+00DF, whose upper() is the two characters "SS",            *)
(*   "SZ"     U+1E9E, whose lower() is U+00DF and whose upper() is itself, *)
(*   " "      whitespace.                                                  *)
(* A Python dict is a sequence of entries with pairwise distinct keys, in  *)
(* insertion order.                                                        *)
(***************************************************************************)
EXTENDS Naturals, Sequences, FiniteSets

VARIABLES name_dict, call, built, resolved, repeats

vars == <<name_dict, call, built, resolved, repeats>>

history == <<built, resolved, repeats>>

\* Largest name index of the resolver specification SpecResolve.
MaxEntries == 2

\* Largest name index of the service specification Spec.
MaxHistoryEntries == 1

----------------------------------------------------------------------------
\* str.upper, str.lower, str.strip

Whitespace == {" "}

upper_char(c) ==
  CASE c = "s" -> <<"S">>
    [] c = "sz" -> <<"S", "S">>
    [] OTHER -> <<c>>

lower_char(c) ==
  CASE c = "S" -> <<"s">>
    [] c = "SZ" -> <<"sz">>
    [] OTHER -> <<c>>

RECURSIVE upper(_)
upper(s) == IF s = <<>> THEN <<>> ELSE upper_char(Head(s)) \o upper(Tail(s))

RECURSIVE lower(_)
lower(s) == IF s = <<>> THEN <<>> ELSE lower_char(Head(s)) \o lower(Tail(s))

RECURSIVE lstrip(_)
lstrip(s) ==
  IF s # <<>> /\ Head(s) \in Whitespace THEN lstrip(Tail(s)) ELSE s

RECURSIVE rstrip(_)
rstrip(s) ==
  IF s # <<>> /\ s[Len(s)] \in Whitespace
  THEN rstrip(SubSeq(s, 1, Len(s) - 1))
  ELSE s

strip(s) == rstrip(lstrip(s))

----------------------------------------------------------------------------
\* Inputs: the names and tickers an index may hold, and the tool arguments.

\* Company names: one spelled like a ticker, one with leading whitespace, two
\* that differ only in case, one whose lowercase does not survive upper().
NamePool ==
  { <<"s">>, <<" ", "s">>, <<"s", "s">>, <<"S", "s">>, <<"sz">> }

\* Tickers: a lowercase and an uppercase one with the same uppercase, one with
\* leading whitespace, one whose uppercase does not survive lower().
TickerPool ==
  { <<"s">>, <<"S">>, <<" ", "s">>, <<"SZ">> }

Entries == [name : NamePool, ticker : TickerPool]

DistinctNames(d) ==
  \A i, j \in DOMAIN d : i # j => d[i].name # d[j].name

Indices(n) ==
  UNION { { d \in [1..k -> Entries] : DistinctNames(d) } : k \in 0..n }

Forms(x) ==
  { x, upper(x), lower(x), <<" ">> \o x, x \o <<" ">>, <<" ">> \o x \o <<" ">> }

Queries == UNION { Forms(x) : x \in NamePool \cup TickerPool }

NameArgs == UNION { {x, upper(x), lower(x)} : x \in NamePool }

TickerArgs == TickerPool

DescriptiveQueries == { <<"s", "s">> }

----------------------------------------------------------------------------
\* The result of a tool: the slots of the message or value it returns.

NoStr == <<>>

Result(kind, query, name, ticker) ==
  [kind |-> kind, query |-> query, name |-> name, ticker |-> ticker]

NoCall ==
  [tool |-> "none", arg |-> NoStr, kg_method |-> "none", kg_arg |-> NoStr,
   out |-> Result("none", NoStr, NoStr, NoStr)]

----------------------------------------------------------------------------
\* match_ticker_or_name

\* Variant of symbol_to_name: the first entry with a key is kept.
symbol_to_name_first(name_to_symbol) ==
  [ k \in { upper(name_to_symbol[i].ticker) : i \in DOMAIN name_to_symbol } |->
      LET hits == { i \in DOMAIN name_to_symbol :
                      upper(name_to_symbol[i].ticker) = k }
          first == CHOOSE i \in hits : \A j \in hits : i <= j
      IN  name_to_symbol[first].name ]

\* {v.upper(): k for k, v in name_to_symbol.items()}: a later entry
\* overwrites an earlier one with the same key.
symbol_to_name(name_to_symbol) ==
  [ k \in { upper(name_to_symbol[i].ticker) : i \in DOMAIN name_to_symbol } |->
      LET hits == { i \in DOMAIN name_to_symbol :
                      upper(name_to_symbol[i].ticker) = k }
          last == CHOOSE i \in hits : \A j \in hits : j <= i
      IN  name_to_symbol[last].name ]

\* name_to_symbol[company_name]
dict_get(name_to_symbol, key) ==
  LET i == CHOOSE i \in DOMAIN name_to_symbol : name_to_symbol[i].name = key
  IN  name_to_symbol[i].ticker

\* Variant of name_matches: case-sensitive comparison.
name_matches_exact(name_to_symbol, query) ==
  LET Hit(e) == e.name = query
  IN  SelectSeq(name_to_symbol, Hit)

\* Variant of name_matches: the query is stripped first.
name_matches_stripped(name_to_symbol, query) ==
  LET Hit(e) == lower(e.name) = lower(strip(query))
  IN  SelectSeq(name_to_symbol, Hit)

\* [name for name in name_to_symbol if name.lower() == query.lower()]
name_matches(name_to_symbol, query) ==
  LET Hit(e) == lower(e.name) = lower(query)
  IN  SelectSeq(name_to_symbol, Hit)

\* Variant of match_ticker_or_name: query_norm is the raw query.
match_ticker_or_name_unstripped(name_to_symbol, query) ==
  LET query_norm == query
      s2n == symbol_to_name(name_to_symbol)
      matches == name_matches(name_to_symbol, query)
  IN  IF upper(query_norm) \in DOMAIN s2n
      THEN Result("ticker", query, s2n[upper(query_norm)], upper(query_norm))
      ELSE IF matches # <<>>
      THEN Result("name", query, matches[1].name,
                  dict_get(name_to_symbol, matches[1].name))
      ELSE Result("unrecognized", query, NoStr, NoStr)

\* Variant of match_ticker_or_name: Case 2 is tried before Case 1.
match_ticker_or_name_name_first(name_to_symbol, query) ==
  LET query_norm == strip(query)
      s2n == symbol_to_name(name_to_symbol)
      matches == name_matches(name_to_symbol, query)
  IN  IF matches # <<>>
      THEN Result("name", query, matches[1].name,
                  dict_get(name_to_symbol, matches[1].name))
      ELSE IF upper(query_norm) \in DOMAIN s2n
      THEN Result("ticker", query, s2n[upper(query_norm)], upper(query_norm))
      ELSE Result("unrecognized", query, NoStr, NoStr)

\* Variant of match_ticker_or_name: the last message quotes query_norm.
match_ticker_or_name_echo_norm(name_to_symbol, query) ==
  LET query_norm == strip(query)
      s2n == symbol_to_name(name_to_symbol)
      matches == name_matches(name_to_symbol, query)
  IN  IF upper(query_norm) \in DOMAIN s2n
      THEN Result("ticker", query, s2n[upper(query_norm)], upper(query_norm))
      ELSE IF matches # <<>>
      THEN Result("name", query, matches[1].name,
                  dict_get(name_to_symbol, matches[1].name))
      ELSE Result("unrecognized", query_norm, NoStr, NoStr)

\* Lines 45-66: the three return statements, as the slots of their messages.
match_ticker_or_name(name_to_symbol, query) ==
  LET query_norm == strip(query)
      s2n == symbol_to_name(name_to_symbol)
      matches == name_matches(name_to_symbol, query)
  IN  IF upper(query_norm) \in DOMAIN s2n
      THEN Result("ticker", query, s2n[upper(query_norm)], upper(query_norm))
      ELSE IF matches # <<>>
      THEN Result("name", query, matches[1].name,
                  dict_get(name_to_symbol, matches[1].name))
      ELSE Result("unrecognized", query, NoStr, NoStr)


Called(tool, arg, kg_method, kg_arg, out) ==
  [tool |-> tool, arg |-> arg, kg_method |-> kg_method, kg_arg |-> kg_arg,
   out |-> out]

\* Variant of match_ticker_or_name_tool: a ticker match is written back into
\* kg.name_dict.
match_ticker_or_name_tool_caching(query) ==
  /\ call' = Called("match_ticker_or_name", query, "none", NoStr,
                    match_ticker_or_name(name_dict, query))
  /\ name_dict' =
       IF call'.out.kind = "ticker"
          /\ \A i \in DOMAIN name_dict : name_dict[i].name # call'.out.ticker
       THEN Append(name_dict,
                   [name |-> call'.out.ticker, ticker |-> call'.out.name])
       ELSE name_dict

\* The tool reads kg.name_dict and calls no method of kg.
match_ticker_or_name_tool(query) ==
  /\ call' = Called("match_ticker_or_name", query, "none", NoStr,
                    match_ticker_or_name(name_dict, query))
  /\ UNCHANGED name_dict

----------------------------------------------------------------------------
\* get_company_name: the candidate list is the Candidate Supplier's answer,
\* here no name or one stored name.

get_company_name(query) ==
  /\ \E cand \in {NoStr} \cup { name_dict[i].name : i \in DOMAIN name_dict } :
       call' = Called("get_company_name", query, "get_company_name", query,
                      Result("candidates", NoStr, cand, NoStr))
  /\ UNCHANGED name_dict

----------------------------------------------------------------------------
\* get_ticker_by_name

\* FinanceKG.get_ticker_by_name: exact-key lookup in the name index.
kg_get_ticker_by_name(name_to_symbol, name) ==
  IF \E i \in DOMAIN name_to_symbol : name_to_symbol[i].name = name
  THEN Result("ticker_of", NoStr, name, dict_get(name_to_symbol, name))
  ELSE Result("NotFoundError", NoStr, NoStr, NoStr)

\* Variant of get_ticker_by_name: the name is stripped before the lookup.
get_ticker_by_name_stripped(company_name) ==
  /\ call' = Called("get_ticker_by_name", company_name, "get_ticker_by_name",
                    strip(company_name),
                    kg_get_ticker_by_name(name_dict, strip(company_name)))
  /\ UNCHANGED name_dict

get_ticker_by_name(company_name) ==
  /\ call' = Called("get_ticker_by_name", company_name, "get_ticker_by_name",
                    company_name,
                    kg_get_ticker_by_name(name_dict, company_name))
  /\ UNCHANGED name_dict

----------------------------------------------------------------------------
\* The data tools: return kg.<tool>(ticker_name)

GatewayTools ==
  { "get_price_history", "get_detailed_price_history", "get_dividends_history",
    "get_market_capitalization", "get_eps", "get_pe_ratio", "get_info" }

\* What kg returns is returned as it is: one opaque "payload".
kg_forward(tool, kg_arg, ticker_name) ==
  /\ call' = Called(tool, ticker_name, tool, kg_arg,
                    Result("payload", NoStr, NoStr, NoStr))
  /\ UNCHANGED name_dict

get_price_history(ticker_name) ==
  kg_forward("get_price_history", ticker_name, ticker_name)

get_detailed_price_history(ticker_name) ==
  kg_forward("get_detailed_price_history", ticker_name, ticker_name)

get_dividends_history(ticker_name) ==
  kg_forward("get_dividends_history", ticker_name, ticker_name)

get_market_capitalization(ticker_name) ==
  kg_forward("get_market_capitalization", ticker_name, ticker_name)

\* Variant of get_eps: the ticker is brought to symbol form first.
get_eps_normalizing(ticker_name) ==
  kg_forward("get_eps", upper(strip(ticker_name)), ticker_name)

get_eps(ticker_name) ==
  kg_forward("get_eps", ticker_name, ticker_name)

get_pe_ratio(ticker_name) ==
  kg_forward("get_pe_ratio", ticker_name, ticker_name)

\* Variant of get_info: only a ticker resolved before is forwarded.
get_info_validating(ticker_name) ==
  /\ ticker_name \in resolved
  /\ kg_forward("get_info", ticker_name, ticker_name)

get_info(ticker_name) ==
  kg_forward("get_info", ticker_name, ticker_name)

----------------------------------------------------------------------------
\* History: the name index as FinanceKG() built it, the tickers the
\* resolution tools have produced so far, and whether the last call repeated
\* the match_ticker_or_name call before it.

Produced(c) ==
  IF \/ c.tool = "match_ticker_or_name" /\ c.out.kind \in {"ticker", "name"}
     \/ c.tool = "get_ticker_by_name" /\ c.out.kind = "ticker_of"
  THEN {c.out.ticker}
  ELSE {}

Observe ==
  /\ UNCHANGED built
  /\ resolved' = resolved \cup Produced(call')
  /\ repeats' = ( /\ call.tool = "match_ticker_or_name"
                  /\ call'.tool = "match_ticker_or_name"
                  /\ call'.arg = call.arg )

----------------------------------------------------------------------------
\* The service: every tool, called in any order with any argument.

Init ==
  /\ name_dict \in Indices(MaxHistoryEntries)
  /\ call = NoCall
  /\ built = name_dict
  /\ resolved = {}
  /\ repeats = FALSE

Next ==
  \/ \E q \in Queries : match_ticker_or_name_tool(q) /\ Observe
  \/ \E q \in DescriptiveQueries : get_company_name(q) /\ Observe
  \/ \E n \in NameArgs : get_ticker_by_name(n) /\ Observe
  \/ \E t \in TickerArgs : get_price_history(t) /\ Observe
  \/ \E t \in TickerArgs : get_detailed_price_history(t) /\ Observe
  \/ \E t \in TickerArgs : get_dividends_history(t) /\ Observe
  \/ \E t \in TickerArgs : get_market_capitalization(t) /\ Observe
  \/ \E t \in TickerArgs : get_eps(t) /\ Observe
  \/ \E t \in TickerArgs : get_pe_ratio(t) /\ Observe
  \/ \E t \in TickerArgs : get_info(t) /\ Observe

Spec == Init /\ [][Next]_vars

\* match_ticker_or_name as a function of the index and the query: one call,
\* over the wider indexes.

InitResolve ==
  /\ name_dict \in Indices(MaxEntries)
  /\ call = NoCall
  /\ built = name_dict
  /\ resolved = {}
  /\ repeats = FALSE

NextResolve ==
  /\ call = NoCall
  /\ \E q \in Queries : match_ticker_or_name_tool(q)
  /\ UNCHANGED history

SpecResolve == InitResolve /\ [][NextResolve]_vars

----------------------------------------------------------------------------
\* Vocabulary of the properties.

resolve(query) == match_ticker_or_name(name_dict, query)

Matched == call.tool = "match_ticker_or_name"

Stored == DOMAIN name_dict

NameOf(i) == name_dict[i].name

TickerOf(i) == name_dict[i].ticker

\* The uppercased stored tickers.
StoredSymbols == { upper(TickerOf(i)) : i \in Stored }

\* q is resolved on the ticker path.
IsSymbol(q) == upper(strip(q)) \in StoredSymbols

\* Same outcome, same company name, same ticker (the echoed query apart).
SameMatch(r1, r2) ==
  r1.kind = r2.kind /\ r1.name = r2.name /\ r1.ticker = r2.ticker

\* Equal whichever way case is ignored.
CaseEq(a, b) == lower(a) = lower(b) /\ upper(a) = upper(b)

\* Equal in some way of ignoring case.
CaseEqLoose(a, b) == lower(a) = lower(b) \/ upper(a) = upper(b)

Padded(t) == <<" ">> \o t \o <<" ">>

\* q is n with whitespace added in front, behind or both.
IsPaddingOf(q, n) ==
  /\ q # n
  /\ \E a \in 0..Len(q) :
       /\ a + Len(n) <= Len(q)
       /\ SubSeq(q, a + 1, a + Len(n)) = n
       /\ \A k \in 1..Len(q) :
            (k <= a \/ k > a + Len(n)) => q[k] \in Whitespace

----------------------------------------------------------------------------
\* C1 as stated: every stored ticker t, its lowercase and its padded form
\* are all recognized as a ticker, with the same company name.
C1_EveryStoredTicker ==
  \A i \in Stored :
    LET t == TickerOf(i)
        r == resolve(t)
    IN  /\ r.kind = "ticker"
        /\ SameMatch(resolve(lower(t)), r)
        /\ SameMatch(resolve(Padded(t)), r)

\* A stored ticker free of surrounding whitespace whose uppercase survives
\* lowercasing.
IsCleanTicker(t) == strip(t) = t /\ upper(lower(t)) = upper(t)

\* C1 amended: the same, for every stored ticker that has no leading or
\* trailing whitespace and satisfies upper(lower(t)) = upper(t).
C1_CleanStoredTicker ==
  \A i \in Stored :
    LET t == TickerOf(i)
        r == resolve(t)
    IN  IsCleanTicker(t) =>
          /\ r.kind = "ticker"
          /\ r.ticker = upper(t)
          /\ SameMatch(resolve(lower(t)), r)
          /\ SameMatch(resolve(Padded(t)), r)

C1_Witness ==
  /\ Matched
  /\ \E i \in Stored :
       /\ IsCleanTicker(TickerOf(i))
       /\ call.arg = Padded(lower(TickerOf(i)))
       /\ lower(TickerOf(i)) # TickerOf(i)
       /\ call.out.kind = "ticker"
       /\ call.out.name = resolve(TickerOf(i)).name

----------------------------------------------------------------------------
\* C2 as stated: every stored name n is recognized as a company name, and
\* its uppercase and lowercase give the same name match.
C2_EveryStoredName ==
  \A i \in Stored :
    LET n == NameOf(i)
        r == resolve(n)
    IN  /\ r.kind = "name"
        /\ SameMatch(resolve(upper(n)), r)
        /\ SameMatch(resolve(lower(n)), r)

\* None of n, n.upper(), n.lower() is taken by the ticker path, and the
\* lowercase of n survives uppercasing.
IsPlainName(n) ==
  /\ ~IsSymbol(n) /\ ~IsSymbol(upper(n)) /\ ~IsSymbol(lower(n))
  /\ lower(upper(n)) = lower(n)

\* C2 amended: the same, for every stored name n such that none of n,
\* upper(n), lower(n) is resolved as a ticker and lower(upper(n)) = lower(n).
C2_PlainStoredName ==
  \A i \in Stored :
    LET n == NameOf(i)
        r == resolve(n)
    IN  IsPlainName(n) =>
          /\ r.kind = "name"
          /\ lower(r.name) = lower(n)
          /\ SameMatch(resolve(upper(n)), r)
          /\ SameMatch(resolve(lower(n)), r)

C2_Witness ==
  /\ Matched
  /\ \E i \in Stored :
       /\ IsPlainName(NameOf(i))
       /\ call.arg = upper(NameOf(i))
       /\ call.arg # NameOf(i)
       /\ call.out.kind = "name"
       /\ SameMatch(call.out, resolve(NameOf(i)))

----------------------------------------------------------------------------
\* C3 as stated: a query equal, case-insensitively, to the stored ticker of
\* one entity and to the stored name of another is recognized as a ticker of
\* an entity owning such a ticker.
C3_TickerPrecedence ==
  Matched =>
    \A i, j \in Stored :
      (i # j /\ CaseEq(call.arg, TickerOf(i)) /\ CaseEq(call.arg, NameOf(j)))
        => /\ call.out.kind = "ticker"
           /\ \E k \in Stored :
                CaseEq(call.arg, TickerOf(k)) /\ call.out.name = NameOf(k)

\* C3 amended: a query whose trimmed, uppercased form is the uppercase of a
\* stored ticker, and which also equals the stored name of another entity
\* case-insensitively, is recognized as a ticker of an entity owning that
\* uppercased ticker, never as a company name.
C3_SymbolPrecedence ==
  Matched =>
    \A i, j \in Stored :
      ( /\ i # j
        /\ upper(strip(call.arg)) = upper(TickerOf(i))
        /\ lower(call.arg) = lower(NameOf(j)) )
        => /\ call.out.kind = "ticker"
           /\ call.out.ticker = upper(strip(call.arg))
           /\ \E k \in Stored :
                /\ upper(TickerOf(k)) = upper(strip(call.arg))
                /\ call.out.name = NameOf(k)

C3_Witness ==
  /\ Matched
  /\ \E i, j \in Stored :
       /\ i # j
       /\ CaseEq(call.arg, TickerOf(i))
       /\ CaseEq(call.arg, NameOf(j))
       /\ upper(TickerOf(j)) # upper(TickerOf(i))
       /\ call.out.kind = "ticker"
       /\ call.out.name = NameOf(i)

----------------------------------------------------------------------------
\* C4 as stated: a query that is neither a stored ticker nor a stored name,
\* compared case-insensitively, is not recognized, and the result carries
\* the query unmodified.
C4_NeitherIsUnrecognized ==
  Matched =>
    ( (\A i \in Stored : /\ ~CaseEqLoose(call.arg, TickerOf(i))
                         /\ ~CaseEqLoose(call.arg, NameOf(i)))
      => call.out = Result("unrecognized", call.arg, NoStr, NoStr) )

\* C4 amended: a query whose trimmed, uppercased form is not the uppercase
\* of a stored ticker, and whose lowercase is not the lowercase of a stored
\* name, is not recognized, and the result carries the query unmodified.
C4_NoSymbolNoNameIsUnrecognized ==
  Matched =>
    ( (/\ ~IsSymbol(call.arg)
       /\ \A i \in Stored : lower(call.arg) # lower(NameOf(i)))
      => call.out = Result("unrecognized", call.arg, NoStr, NoStr) )

C4_Witness ==
  /\ Matched
  /\ Stored # {}
  /\ ~IsSymbol(call.arg)
  /\ \A i \in Stored : lower(call.arg) # lower(NameOf(i))
  /\ strip(call.arg) # call.arg
  /\ call.out = Result("unrecognized", call.arg, NoStr, NoStr)

----------------------------------------------------------------------------
\* C5 as stated: a data tool hands kg the trimmed, uppercased ticker.
C5_ForwardsSymbolForm ==
  call.tool \in GatewayTools => call.kg_arg = upper(strip(call.arg))

\* C5 amended: a data tool calls the kg method of its own name with its
\* ticker argument exactly as received.
C5_ForwardsArgumentUnchanged ==
  call.tool \in GatewayTools =>
    call.kg_method = call.tool /\ call.kg_arg = call.arg

C5_Witness ==
  /\ call.tool \in GatewayTools
  /\ call.arg # upper(strip(call.arg))
  /\ call.kg_method = call.tool
  /\ call.kg_arg = call.arg

----------------------------------------------------------------------------
----------------------------------------------------------------------------
\* C7 as stated: a ticker reaches kg through a data tool only if an earlier
\* resolution produced it.
C7_ForwardsOnlyResolved ==
  call.kg_method \in GatewayTools => call.kg_arg \in resolved

\* C7 amended: whatever was resolved before, every data tool accepts every
\* ticker string and forwards it to kg.
C7_ForwardsUnconditionally ==
  \A t \in TickerArgs :
    /\ ENABLED get_price_history(t)
    /\ ENABLED get_detailed_price_history(t)
    /\ ENABLED get_dividends_history(t)
    /\ ENABLED get_market_capitalization(t)
    /\ ENABLED get_eps(t)
    /\ ENABLED get_pe_ratio(t)
    /\ ENABLED get_info(t)

C7_Witness ==
  /\ call.kg_method \in GatewayTools
  /\ resolved # {}
  /\ call.kg_arg \notin resolved

----------------------------------------------------------------------------
\* C8: no tool changes the name index, so in every sequence of calls a
\* match_ticker_or_name call returns what its argument gives on the index as
\* built: two calls with the same argument return the same result.
C8_Idempotent ==
  /\ name_dict = built
  /\ Matched => call.out = match_ticker_or_name(built, call.arg)

C8_Witness ==
  /\ repeats
  /\ Matched
  /\ resolved # {}
  /\ call.out.kind = "ticker"

----------------------------------------------------------------------------
\* C9 as stated: the symbol index maps upper(ticker) to the name of every
\* entry, has no other key, and has as many entries as the name index.
C9_ExactInverse ==
  LET s2n == symbol_to_name(name_dict)
  IN  /\ \A i \in Stored : s2n[upper(TickerOf(i))] = NameOf(i)
      /\ DOMAIN s2n = StoredSymbols
      /\ Cardinality(DOMAIN s2n) = Len(name_dict)

\* The last entry, in index order, with the uppercased ticker of entry i.
LastSharing(i) ==
  CHOOSE j \in Stored :
    /\ upper(TickerOf(j)) = upper(TickerOf(i))
    /\ \A k \in Stored : upper(TickerOf(k)) = upper(TickerOf(i)) => k <= j

DistinctSymbols ==
  \A i, j \in Stored : i # j => upper(TickerOf(i)) # upper(TickerOf(j))

\* C9 amended: the symbol index has exactly the uppercased tickers as keys
\* and maps upper(ticker) of an entry to the name of the last entry with
\* that uppercased ticker; it is the exact inverse, with as many entries as
\* the name index, exactly when the uppercased tickers are pairwise distinct.
C9_LastWriteInverse ==
  LET s2n == symbol_to_name(name_dict)
  IN  /\ DOMAIN s2n = StoredSymbols
      /\ \A i \in Stored : s2n[upper(TickerOf(i))] = NameOf(LastSharing(i))
      /\ Cardinality(DOMAIN s2n) <= Len(name_dict)
      /\ DistinctSymbols <=> Cardinality(DOMAIN s2n) = Len(name_dict)
      /\ DistinctSymbols <=> \A i \in Stored : s2n[upper(TickerOf(i))] = NameOf(i)

C9_Witness ==
  /\ Matched
  /\ \E i, j \in Stored :
       /\ i < j
       /\ upper(TickerOf(i)) = upper(TickerOf(j))
       /\ LastSharing(i) = j
       /\ call.arg = TickerOf(i)
       /\ call.out.kind = "ticker"
       /\ call.out.name = NameOf(j)

----------------------------------------------------------------------------
\* C10: a stored name with whitespace added around it that the ticker path
\* does not take, and that equals no stored name case-insensitively, is not
\* recognized.
C10_PaddedNameIsUnrecognized ==
  Matched =>
    \A i \in Stored :
      ( /\ IsPaddingOf(call.arg, NameOf(i))
        /\ ~IsSymbol(call.arg)
        /\ \A j \in Stored : lower(NameOf(j)) # lower(call.arg) )
        => call.out.kind = "unrecognized"

C10_Witness ==
  /\ Matched
  /\ \E i \in Stored :
       /\ IsPaddingOf(call.arg, NameOf(i))
       /\ strip(NameOf(i)) = NameOf(i)
       /\ ~IsSymbol(call.arg)
       /\ \A j \in Stored : lower(NameOf(j)) # lower(call.arg)
  /\ call.out.kind = "unrecognized"

====
